---- MODULE Spec2Model ----
(***************************************************************************)
(* Model of the image conversion endpoint POST /api/upload of              *)
(* src/src/index.ts: request validation, the Promise.all fan-out of the    *)
(* per-file conversion tasks, and the JSON response.                       *)
(*                                                                         *)
(* Strings of the program are TLA+ strings; the string functions of the    *)
(* program (startsWith, split, toLowerCase, Number, template literals)     *)
(* are computed character by character.  The image library (sharp) and     *)
(* File.arrayBuffer are external: every awaited call of theirs resolves,   *)
(* resolves to a falsy value where the code tests for one, or rejects,     *)
(* chosen nondeterministically, and may stay pending for ever.             *)
(* One behaviour is one request whose multipart body parsed; the handler   *)
(* shares no mutable state between requests.                               *)
(***************************************************************************)
EXTENDS Integers, Sequences, FiniteSets, TLC

VARIABLES
    pc,          \* position of the route handler: "idle", "awaitAll", "responded"
    request,     \* the parsed form data: files, targetFormat, quality, lossless
    quality,     \* handler local `quality` (line 113)
    lossless,    \* handler local `lossless` (line 114)
    taskPc,      \* per file: the await its async callback is suspended at, or its outcome
    taskError,   \* per file: the message of the Error its promise rejected with
    steps,       \* per file: the steps of the callback performed so far, in order
    codecCalls,  \* per file: the calls of convertImage and of the encoders, with their options
    rejections,  \* history: the files whose promise rejected, in the order they rejected
    all,         \* the Promise.all promise: state, values, remaining, reason
    responses    \* the responses sent for the request, in order

vars == <<pc, request, quality, lossless, taskPc, taskError, steps, codecCalls, rejections,
          all, responses>>

-----------------------------------------------------------------------------
(* Bounds and input domains *)

MaxFiles == 2

\* the absent value of an optional string (undefined)
Undefined == "undefined"

-----------------------------------------------------------------------------
(* String functions of the JavaScript runtime, on TLA+ strings *)

CharAt(s, i) == SubSeq(s, i, i)

\* String.prototype.startsWith
StartsWith(s, prefix) ==
    /\ Len(s) >= Len(prefix)
    /\ SubSeq(s, 1, Len(prefix)) = prefix

\* whether sub occurs in s (used by the properties to find a file name in a message)
Contains(s, sub) ==
    \E i \in 1..(Len(s) - Len(sub) + 1) : SubSeq(s, i, i + Len(sub) - 1) = sub

\* mutant of SplitFirst: the text before the last sep (the extension alone is cut)
SplitLast(s, sep) ==
    LET hits == {i \in 1..Len(s) : CharAt(s, i) = sep}
    IN  IF hits = {} THEN s
        ELSE SubSeq(s, 1, (CHOOSE i \in hits : \A j \in hits : i >= j) - 1)

\* s.split(sep)[0] for a one-character separator: the text before the first sep
SplitFirst(s, sep) ==
    LET hits == {i \in 1..Len(s) : CharAt(s, i) = sep}
    IN  IF hits = {} THEN s
        ELSE SubSeq(s, 1, (CHOOSE i \in hits : \A j \in hits : i <= j) - 1)

UpperLetters == "ABCDEFGHIJKLMNOPQRSTUVWXYZ"
LowerLetters == "abcdefghijklmnopqrstuvwxyz"

LowerChar(c) ==
    LET at == {i \in 1..Len(UpperLetters) : CharAt(UpperLetters, i) = c}
    IN  IF at = {} THEN c ELSE CharAt(LowerLetters, CHOOSE i \in at : TRUE)

\* String.prototype.toLowerCase
RECURSIVE ToLowerCase(_)
ToLowerCase(s) ==
    IF Len(s) = 0 THEN s ELSE LowerChar(CharAt(s, 1)) \o ToLowerCase(Tail(s))

Digits == "0123456789"

DigitValue(c) == (CHOOSE i \in 1..Len(Digits) : CharAt(Digits, i) = c) - 1

IsDigits(s) ==
    /\ Len(s) > 0
    /\ \A i \in 1..Len(s) : \E d \in 1..Len(Digits) : CharAt(Digits, d) = CharAt(s, i)

RECURSIVE DecimalValue(_)
DecimalValue(s) ==
    IF Len(s) = 0 THEN 0
    ELSE 10 * DecimalValue(SubSeq(s, 1, Len(s) - 1)) + DigitValue(CharAt(s, Len(s)))

NaN == [isNaN |-> TRUE, value |-> 0]
Num(n) == [isNaN |-> FALSE, value |-> n]

\* Number(v) for v the result of formData.get: `field` is the list of the
\* entries of that name (empty: get returns null, and Number(null) is 0).
\* Strings: the empty string is 0, an optionally signed run of decimal digits
\* is its value, anything else is NaN (fractions, exponents, hex and blanks,
\* which Number also reads, are not among the inputs).
ToNumber(field) ==
    IF field = << >> THEN Num(0)
    ELSE LET s == field[1]
         IN  IF Len(s) = 0 THEN Num(0)
             ELSE IF IsDigits(s) THEN Num(DecimalValue(s))
             ELSE IF CharAt(s, 1) = "-" /\ IsDigits(Tail(s)) THEN Num(0 - DecimalValue(Tail(s)))
             ELSE IF CharAt(s, 1) = "+" /\ IsDigits(Tail(s)) THEN Num(DecimalValue(Tail(s)))
             ELSE NaN

\* mutant of NumberOr: only NaN takes the default (as n ?? d, or a test of isNaN)
NumberOrNaN(n, d) == IF n.isNaN THEN d ELSE n.value

\* n || d on a number: NaN and 0 are falsy
NumberOr(n, d) == IF n.isNaN \/ n.value = 0 THEN d ELSE n.value

-----------------------------------------------------------------------------
(* The format registry and the file type guard *)

\* mutant of SUPPORTED_FORMATS: the extension used as the subtype for jpg
SUPPORTED_FORMATS_JPG ==
    << <<"webp", "image/webp">>,
       <<"avif", "image/avif">>,
       <<"jpg",  "image/jpg">>,
       <<"jpeg", "image/jpeg">>,
       <<"png",  "image/png">> >>

\* const SUPPORTED_FORMATS: the object literal, as its <<key, value>> entries
SUPPORTED_FORMATS ==
    << <<"webp", "image/webp">>,
       <<"avif", "image/avif">>,
       <<"jpg",  "image/jpeg">>,
       <<"jpeg", "image/jpeg">>,
       <<"png",  "image/png">> >>

ObjectKeys(o) == {o[i][1] : i \in 1..Len(o)}
ObjectValues(o) == {o[i][2] : i \in 1..Len(o)}

\* o[key]: the value of the entry of that key, undefined when there is none
Lookup(o, key) ==
    IF key \in ObjectKeys(o)
    THEN o[CHOOSE i \in 1..Len(o) : o[i][1] = key][2]
    ELSE Undefined

\* mutant of isValidImageType: any image type is let through
isAnyImageType(file) == StartsWith(file.type, "image/")

\* function isValidImageType(file)
isValidImageType(file) ==
    /\ StartsWith(file.type, "image/")
    /\ file.type \in ObjectValues(SUPPORTED_FORMATS)

-----------------------------------------------------------------------------
(* Messages and response bodies *)

\* what the image library rejects with; its text is the library's own
CodecMessage == "unsupported image format"
\* what File.arrayBuffer rejects with
ReadMessage == "file could not be read"

InvalidFileTypeMessage(file) == "Invalid file type: " \o file.name
FailedToConvertFile(file, message) == "Failed to convert " \o file.name \o ": " \o message
FailedToConvertTo(format, message) == "Failed to convert to " \o format \o ": " \o message

\* a response: its status and the fields of its JSON body (Undefined: not in the body)
Response(status, error, details, message, files) ==
    [status |-> status, error |-> error, details |-> details,
     message |-> message, files |-> files]

NoFilesResponse == Response(400, "No files provided", Undefined, Undefined, << >>)
UnsupportedFormatResponse == Response(400, "Unsupported format", Undefined, Undefined, << >>)
SuccessResponse(files) == Response(200, Undefined, Undefined, "Files converted successfully", files)
ErrorResponse(details) == Response(500, "Error processing files", details, Undefined, << >>)

\* the record a callback returns for a converted file (lines 160-182); the
\* payload, the sizes and the metadata come from the library and are left out
ConvertedRecord(file, targetFormat) ==
    [name |-> SplitFirst(file.name, ".") \o "." \o ToLowerCase(targetFormat),
     originalName |-> file.name,
     type |-> Lookup(SUPPORTED_FORMATS, targetFormat)]

-----------------------------------------------------------------------------
(* convertImage: its call, and the encoder chosen by the switch *)

\* a call of the image code: what is called, and the options named in
\* `passed` with their values (an option not passed reads FALSE)
Call(op, format, q, l, passed) ==
    [op |-> op, format |-> format, quality |-> q, lossless |-> l, passed |-> passed]

\* lines 148-151: convertImage(buffer, targetFormat, {quality, lossless})
ConvertImageCall(format, options) ==
    Call("convertImage", format, options.quality, options.lossless, {"quality", "lossless"})

\* lines 61-99: `quality` defaults, then the switch on format.toLowerCase()
\* picks the encoder; op "default" is the default branch, which throws
EncoderCall(format, options) ==
    LET q == NumberOr(Num(options.quality), 80)
        f == ToLowerCase(format)
    IN  IF f \in {"webp", "avif"}
        THEN Call(f, format, q, options.lossless, {"quality", "lossless"})
        ELSE IF f \in {"jpg", "jpeg"}
        THEN Call("jpeg", format, q, FALSE, {"quality", "mozjpeg"})
        ELSE IF f = "png"
        THEN Call("png", format, q, FALSE, {"quality", "compressionLevel"})
        ELSE Call("default", format, q, FALSE, {})

-----------------------------------------------------------------------------
(* Promise.all *)

PendingAll(n) == [state |-> "pending", remaining |-> n, values |-> << >>, reason |-> Undefined]

\* mutant of AllReject: the last rejection wins
AllRejectLast(p, reason) == [p EXCEPT !.state = "rejected", !.reason = reason]

\* the reaction of Promise.all to the rejection of one of its promises: the
\* first rejection settles it, a later one changes nothing
AllReject(p, reason) ==
    IF p.state = "pending" THEN [p EXCEPT !.state = "rejected", !.reason = reason] ELSE p

\* mutant of AllResolveElement: the values are kept in the order of completion
AllResolveInTurn(p, i, value) ==
    LET at == Cardinality(DOMAIN p.values) + 1
        stored == [j \in DOMAIN p.values \cup {at} |->
                      IF j = at THEN value ELSE p.values[j]]
        left == p.remaining - 1
    IN  [p EXCEPT !.values = stored,
                  !.remaining = left,
                  !.state = IF p.state = "pending" /\ left = 0 THEN "fulfilled" ELSE @]

\* the reaction to the fulfilment of promise i: the value is stored at its
\* index and the promise fulfils when none remains
AllResolveElement(p, i, value) ==
    LET stored == [j \in DOMAIN p.values \cup {i} |->
                      IF j = i THEN value ELSE p.values[j]]
        left == p.remaining - 1
    IN  [p EXCEPT !.values = stored,
                  !.remaining = left,
                  !.state = IF p.state = "pending" /\ left = 0 THEN "fulfilled" ELSE @]

\* mutant of AllRejectInOrder: the rejections are reacted to from the last index down
RECURSIVE AllRejectDescending(_, _, _)
AllRejectDescending(p, reasons, i) ==
    IF i > Len(reasons) THEN p
    ELSE LET k == Len(reasons) - i + 1
         IN  AllRejectDescending(IF reasons[k] = Undefined THEN p ELSE AllReject(p, reasons[k]),
                                 reasons, i + 1)

\* the rejections present when Promise.all subscribes are reacted to in index order
RECURSIVE AllRejectInOrder(_, _, _)
AllRejectInOrder(p, reasons, i) ==
    IF i > Len(reasons) THEN p
    ELSE AllRejectInOrder(IF reasons[i] = Undefined THEN p ELSE AllReject(p, reasons[i]),
                          reasons, i + 1)

-----------------------------------------------------------------------------
(* Request validation *)

\* mutant of Validate: the format is checked before the files
ValidateFormatFirst(files, targetFormat) ==
    IF ~(targetFormat # << >> /\ targetFormat[1] \in ObjectKeys(SUPPORTED_FORMATS))
    THEN "Unsupported format"
    ELSE IF Len(files) = 0 THEN "No files provided"
    ELSE "ok"

\* mutant of Validate: the format is looked up without regard to case
ValidateAnyCase(files, targetFormat) ==
    IF Len(files) = 0 THEN "No files provided"
    ELSE IF ~(targetFormat # << >>
              /\ ToLowerCase(targetFormat[1]) \in ObjectKeys(SUPPORTED_FORMATS))
    THEN "Unsupported format"
    ELSE "ok"

\* lines 120-126: the two checks of the handler, in their order
Validate(files, targetFormat) ==
    IF Len(files) = 0 THEN "No files provided"
    ELSE IF ~(targetFormat # << >> /\ targetFormat[1] \in ObjectKeys(SUPPORTED_FORMATS))
    THEN "Unsupported format"
    ELSE "ok"

-----------------------------------------------------------------------------
(* The state before the request arrives *)

Init ==
    /\ pc = "idle"
    /\ request = [files |-> << >>, targetFormat |-> << >>,
                  quality |-> << >>, lossless |-> << >>]
    /\ quality = 0
    /\ lossless = FALSE
    /\ taskPc = << >>
    /\ taskError = << >>
    /\ steps = << >>
    /\ codecCalls = << >>
    /\ rejections = << >>
    /\ all = PendingAll(0)
    /\ responses = << >>

\* the callbacks files.map started
TaskIds == DOMAIN taskPc

\* the indices of a set, in ascending order
RECURSIVE Ascending(_)
Ascending(S) ==
    IF S = {} THEN << >>
    ELSE LET m == CHOOSE i \in S : \A j \in S : i <= j
         IN  <<m>> \o Ascending(S \ {m})

-----------------------------------------------------------------------------
(* The route handler up to its first suspension on Promise.all *)

\* lines 111-129: the form fields are read, the request is validated, and
\* files.map runs every callback, in index order, up to its first await (the
\* type check, then file.arrayBuffer()); Promise.all subscribes to the
\* promises map returned.  A form field is the list of its entries: << >>
\* when the field is absent and formData.get returns null.
UploadRequest(files, targetFormat, qualityField, losslessField) ==
    /\ pc = "idle"
    /\ request' = [files |-> files, targetFormat |-> targetFormat,
                   quality |-> qualityField, lossless |-> losslessField]
    /\ quality' = NumberOr(ToNumber(qualityField), 80)
    /\ lossless' = (losslessField # << >> /\ losslessField[1] = "true")
    /\ IF Validate(files, targetFormat) # "ok"
       THEN /\ responses' = Append(responses,
                   Response(400, Validate(files, targetFormat), Undefined, Undefined, << >>))
            /\ pc' = "responded"
            /\ UNCHANGED <<taskPc, taskError, steps, codecCalls, rejections, all>>
       ELSE LET valid == {i \in 1..Len(files) : isValidImageType(files[i])}
                reasons == [i \in 1..Len(files) |->
                               IF i \in valid THEN Undefined
                               ELSE InvalidFileTypeMessage(files[i])]
            IN  /\ taskPc' = [i \in 1..Len(files) |->
                                IF i \in valid THEN "arrayBuffer" ELSE "rejected"]
                /\ taskError' = reasons
                /\ steps' = [i \in 1..Len(files) |->
                                IF i \in valid THEN <<"typeCheck", "arrayBuffer">>
                                ELSE <<"typeCheck", "throw">>]
                /\ codecCalls' = [i \in 1..Len(files) |-> << >>]
                /\ rejections' = Ascending((1..Len(files)) \ valid)
                /\ all' = AllRejectInOrder(PendingAll(Len(files)), reasons, 1)
                /\ pc' = "awaitAll"
                /\ UNCHANGED responses

-----------------------------------------------------------------------------
(* The per-file callback of files.map, one action per await *)

\* mutant of TaskReject: the callback stays at the await that failed, and tries it again
TaskRejectRetry(i, message) ==
    /\ taskPc' = taskPc
    /\ taskError' = [taskError EXCEPT ![i] = message]
    /\ steps' = [steps EXCEPT ![i] = Append(@, "throw")]
    /\ rejections' = Append(rejections, i)
    /\ all' = AllReject(all, message)

\* the callback throws: its promise rejects with `message`, and Promise.all reacts
TaskReject(i, message) ==
    /\ taskPc' = [taskPc EXCEPT ![i] = "rejected"]
    /\ taskError' = [taskError EXCEPT ![i] = message]
    /\ steps' = [steps EXCEPT ![i] = Append(@, "throw")]
    /\ rejections' = Append(rejections, i)
    /\ all' = AllReject(all, message)

\* the catch of lines 183-187 around the body of the callback
TaskCatch(i, message) == TaskReject(i, FailedToConvertFile(request.files[i], message))

\* the catch of lines 100-104 in convertImage, then the catch of the callback
ConvertCatch(i, message) ==
    TaskCatch(i, FailedToConvertTo(request.targetFormat[1], message))

\* the callback goes on to its next await
TaskAwait(i, step) ==
    /\ taskPc' = [taskPc EXCEPT ![i] = step]
    /\ steps' = [steps EXCEPT ![i] = Append(@, step)]
    /\ UNCHANGED <<taskError, rejections, all>>

ConvertOptions == [quality |-> quality, lossless |-> lossless]

\* line 138: file.arrayBuffer() settles; on success sharp(buffer).metadata() is called
ArrayBufferSettles(i, outcome) ==
    /\ taskPc[i] = "arrayBuffer"
    /\ IF outcome = "resolve"
       THEN TaskAwait(i, "metadataOriginal")
       ELSE TaskCatch(i, ReadMessage)
    /\ UNCHANGED <<pc, request, quality, lossless, codecCalls, responses>>

\* lines 142-151: the metadata of the original settles; on success
\* convertImage is called and suspends on sharpInstance.metadata() (line 55)
MetadataOriginalSettles(i, outcome) ==
    /\ taskPc[i] = "metadataOriginal"
    /\ IF outcome = "resolve"
       THEN /\ TaskAwait(i, "convertImage")
            /\ codecCalls' = [codecCalls EXCEPT ![i] =
                   Append(@, ConvertImageCall(request.targetFormat[1], ConvertOptions))]
       ELSE /\ TaskCatch(i, IF outcome = "falsy"
                            THEN "Could not read original image metadata"
                            ELSE CodecMessage)
            /\ UNCHANGED codecCalls
    /\ UNCHANGED <<pc, request, quality, lossless, responses>>

\* lines 55-99: the metadata read of convertImage settles; on success the
\* switch picks the encoder and toBuffer() is called
ConvertMetadataSettles(i, outcome) ==
    /\ taskPc[i] = "convertImage"
    /\ LET call == EncoderCall(request.targetFormat[1], ConvertOptions)
       IN  IF outcome = "resolve" /\ call.op # "default"
           THEN /\ TaskAwait(i, "toBuffer")
                /\ codecCalls' = [codecCalls EXCEPT ![i] = Append(@, call)]
           ELSE /\ ConvertCatch(i, IF outcome = "falsy"
                                   THEN "Could not read image metadata"
                                   ELSE IF outcome = "reject" THEN CodecMessage
                                   ELSE "Unsupported format: " \o request.targetFormat[1])
                /\ UNCHANGED codecCalls
    /\ UNCHANGED <<pc, request, quality, lossless, responses>>

\* lines 65-95 and 154: toBuffer() settles; on success convertImage returns
\* and sharp(convertedBuffer).metadata() is called
ToBufferSettles(i, outcome) ==
    /\ taskPc[i] = "toBuffer"
    /\ IF outcome = "resolve"
       THEN TaskAwait(i, "metadataConverted")
       ELSE ConvertCatch(i, CodecMessage)
    /\ UNCHANGED <<pc, request, quality, lossless, codecCalls, responses>>

\* lines 154-182: the metadata of the converted bytes settles; on success the
\* callback returns the record and its promise fulfils
MetadataConvertedSettles(i, outcome) ==
    /\ taskPc[i] = "metadataConverted"
    /\ IF outcome = "resolve"
       THEN /\ taskPc' = [taskPc EXCEPT ![i] = "fulfilled"]
            /\ steps' = [steps EXCEPT ![i] = Append(@, "record")]
            /\ all' = AllResolveElement(all, i,
                          ConvertedRecord(request.files[i], request.targetFormat[1]))
            /\ UNCHANGED <<taskError, rejections>>
       ELSE TaskCatch(i, IF outcome = "falsy"
                         THEN "Could not read converted image metadata"
                         ELSE CodecMessage)
    /\ UNCHANGED <<pc, request, quality, lossless, codecCalls, responses>>

\* how an awaited promise settles; the metadata reads are tested for a falsy value
Outcomes == {"resolve", "reject"}
MetadataOutcomes == {"resolve", "falsy", "reject"}

ArrayBuffer == \E i \in TaskIds, o \in Outcomes : ArrayBufferSettles(i, o)
MetadataOriginal == \E i \in TaskIds, o \in MetadataOutcomes : MetadataOriginalSettles(i, o)
ConvertMetadata == \E i \in TaskIds, o \in MetadataOutcomes : ConvertMetadataSettles(i, o)
ToBuffer == \E i \in TaskIds, o \in Outcomes : ToBufferSettles(i, o)
MetadataConverted == \E i \in TaskIds, o \in MetadataOutcomes : MetadataConvertedSettles(i, o)

-----------------------------------------------------------------------------
(* The route handler after Promise.all settled *)

\* lines 191-206: the await of line 129 resumes; the handler returns the
\* success body, or its catch returns the error body
Respond ==
    /\ pc = "awaitAll"
    /\ all.state # "pending"
    /\ responses' = Append(responses,
           IF all.state = "fulfilled"
           THEN SuccessResponse([i \in TaskIds |-> all.values[i]])
           ELSE ErrorResponse(all.reason))
    /\ pc' = "responded"
    /\ UNCHANGED <<request, quality, lossless, taskPc, taskError, steps, codecCalls,
                   rejections, all>>

-----------------------------------------------------------------------------
(* Input domains and specifications *)

File(name, type) == [name |-> name, type |-> type]

FileLists(files, n) == UNION {[1..k -> files] : k \in 0..n}

UploadFrom(files, targetFormats, qualityFields, losslessFields) ==
    \E fs \in FileLists(files, MaxFiles), tf \in targetFormats,
       q \in qualityFields, l \in losslessFields :
        UploadRequest(fs, tf, q, l)

\* Spec: the fan-out, over files of acceptable and unacceptable types
Files ==
    { File("photo.with.dots.png", "image/png"),
      File("noext", "image/jpeg"),
      File("anim.gif", "image/gif"),
      File("notes.txt", "text/plain") }

Upload == UploadFrom(Files, { << >>, <<"bmp">>, <<"webp">> }, { <<"50">> }, { <<"true">> })

Next ==
    \/ Upload
    \/ ArrayBuffer
    \/ MetadataOriginal
    \/ ConvertMetadata
    \/ ToBuffer
    \/ MetadataConverted
    \/ Respond

Spec == Init /\ [][Next]_vars

\* the continuation of the handler's await is a microtask: once Promise.all
\* has settled the event loop runs it, whatever the pending image calls do
FairSpec == Spec /\ WF_vars(Respond)

\* SpecFormats: every key of the registry, and values that are not keys
UploadFormats ==
    UploadFrom({ File("photo.with.dots.png", "image/png"), File("notes.txt", "text/plain") },
               { << >>, <<"bmp">>, <<"WEBP">>, <<"Jpeg">>, <<"image/png">>,
                 <<"webp">>, <<"avif">>, <<"jpg">>, <<"jpeg">>, <<"png">> },
               { << >> }, { << >> })

NextFormats ==
    \/ UploadFormats
    \/ ArrayBuffer
    \/ MetadataOriginal
    \/ ConvertMetadata
    \/ ToBuffer
    \/ MetadataConverted
    \/ Respond

SpecFormats == Init /\ [][NextFormats]_vars

\* SpecOptions: the values of the quality and lossless fields
UploadOptions ==
    UploadFrom({ File("photo.with.dots.png", "image/png") },
               { << >>, <<"bmp">>, <<"webp">>, <<"jpg">> },
               { << >>, <<"abc">>, <<"0">>, <<"000">>, <<"50">>, <<"-5">> },
               { << >>, <<"true">>, <<"TRUE">> })

NextOptions ==
    \/ UploadOptions
    \/ ArrayBuffer
    \/ MetadataOriginal
    \/ ConvertMetadata
    \/ ToBuffer
    \/ MetadataConverted
    \/ Respond

SpecOptions == Init /\ [][NextOptions]_vars

\* SpecNames: the shapes of a file name
UploadNames ==
    UploadFrom({ File("photo.with.dots.png", "image/png"),
                 File("noext", "image/jpeg"),
                 File(".hidden", "image/webp") },
               { <<"bmp">>, <<"webp">> }, { <<"50">> }, { <<"true">> })

NextNames ==
    \/ UploadNames
    \/ ArrayBuffer
    \/ MetadataOriginal
    \/ ConvertMetadata
    \/ ToBuffer
    \/ MetadataConverted
    \/ Respond

SpecNames == Init /\ [][NextNames]_vars

-----------------------------------------------------------------------------
(* Vocabulary of the properties, stated apart from the definitions above *)

RegistryKeys == {"webp", "avif", "jpg", "jpeg", "png"}
AcceptableTypes == {"image/webp", "image/avif", "image/jpeg", "image/png"}

MimeTypeFor(format) ==
    CASE format = "webp" -> "image/webp"
      [] format = "avif" -> "image/avif"
      [] format \in {"jpg", "jpeg"} -> "image/jpeg"
      [] format = "png" -> "image/png"

Uploaded == pc # "idle"
FileCount == Len(request.files)
FormatIsKey == request.targetFormat # << >> /\ request.targetFormat[1] \in RegistryKeys
PassedValidation == Uploaded /\ FileCount >= 1 /\ FormatIsKey
Unacceptable == {i \in 1..FileCount : request.files[i].type \notin AcceptableTypes}
Settled(i) == taskPc[i] \in {"fulfilled", "rejected"}
NoTaskRan == taskPc = << >> /\ steps = << >> /\ codecCalls = << >> /\ rejections = << >>
ResponseIndices == 1..Len(responses)

\* declared types and quality fields beyond those the requests carry
TypeSamples ==
    {"image/webp", "image/avif", "image/jpeg", "image/png", "image/gif", "image/jpg",
     "image/bmp", "image/", "image", "text/plain", "IMAGE/PNG", "png", " image/png",
     "application/image/png"}

TypeGuardOnSamples ==
    \A t \in TypeSamples : isValidImageType(File("f", t)) <=> t \in AcceptableTypes

QualitySamples ==
    << <<"007", 7>>, <<"+5", 5>>, <<"100", 100>>, <<"5x", 80>>, <<"-", 80>>,
       <<"", 80>>, <<"00", 80>>, <<"-0", 80>>, <<"true", 80>> >>

QualityOnSamples ==
    \A k \in 1..Len(QualitySamples) :
        NumberOr(ToNumber(<<QualitySamples[k][1]>>), 80) = QualitySamples[k][2]

IsPrefix(a, b) == Len(a) <= Len(b) /\ SubSeq(b, 1, Len(a)) = a

-----------------------------------------------------------------------------
(* C1 *)

\* C1: a 200 response is sent only when every per-file task fulfilled, and its
\* files array then holds one record per submitted file, the i-th carrying the
\* i-th file's name as originalName; once a task has failed no response is a
\* 200 and none carries a converted record.
AllOrNothing ==
    /\ \A k \in ResponseIndices :
          responses[k].status = 200 =>
             /\ FileCount >= 1
             /\ \A i \in TaskIds : taskPc[i] = "fulfilled"
             /\ Len(responses[k].files) = FileCount
             /\ \A i \in 1..FileCount :
                   responses[k].files[i].originalName = request.files[i].name
    /\ rejections # << >> =>
          \A k \in ResponseIndices :
             responses[k].status # 200 /\ responses[k].files = << >>

\* a 200 for two files of different names whose tasks both fulfilled
AllOrNothingWitness ==
    /\ responses # << >>
    /\ responses[1].status = 200
    /\ FileCount = 2
    /\ request.files[1].name # request.files[2].name

-----------------------------------------------------------------------------
(* C2 *)

\* C2: a request without files is answered 400 {error: "No files provided"}
\* whatever the other fields are, and no callback runs and no image call is made.
NoFilesRejected ==
    (Uploaded /\ FileCount = 0) =>
        /\ Len(responses) = 1
        /\ responses[1].status = 400
        /\ responses[1].error = "No files provided"
        /\ responses[1].details = Undefined
        /\ responses[1].message = Undefined
        /\ responses[1].files = << >>
        /\ NoTaskRan

\* no files together with a target format that is not supported either
NoFilesRejectedWitness ==
    /\ Uploaded
    /\ FileCount = 0
    /\ request.targetFormat = <<"bmp">>
    /\ request.quality = <<"abc">>
    /\ responses # << >>

-----------------------------------------------------------------------------
(* C3 *)

\* C3: a request with at least one file is answered 400 {error: "Unsupported
\* format"} exactly when targetFormat is not one of webp, avif, jpg, jpeg, png
\* as written; then no callback runs and no image call is made.
UnsupportedFormatRejected ==
    (Uploaded /\ FileCount >= 1) =>
        /\ ~FormatIsKey =>
              /\ Len(responses) = 1
              /\ responses[1].status = 400
              /\ responses[1].error = "Unsupported format"
              /\ responses[1].details = Undefined
              /\ responses[1].files = << >>
              /\ NoTaskRan
        /\ FormatIsKey =>
              /\ TaskIds = 1..FileCount
              /\ \A k \in ResponseIndices : responses[k].status # 400

\* a file sent with the format in upper case
UnsupportedFormatRejectedWitness ==
    /\ Uploaded
    /\ FileCount >= 1
    /\ request.targetFormat = <<"WEBP">>
    /\ responses # << >>
    /\ responses[1].error = "Unsupported format"

-----------------------------------------------------------------------------
(* C4 *)

\* C4: a file passes the type check exactly when its declared type is one of
\* image/webp, image/avif, image/jpeg, image/png; a validated request holding
\* an unacceptable file is due a 500 from the start and is never answered 200.
FileTypeGuard ==
    /\ TypeGuardOnSamples
    /\ PassedValidation =>
        /\ \A i \in TaskIds :
              (steps[i] = <<"typeCheck", "throw">>) <=> (i \in Unacceptable)
        /\ Unacceptable # {} =>
              /\ pc = "awaitAll" => all.state = "rejected"
              /\ \A k \in ResponseIndices :
                    responses[k].status = 500 /\ responses[k].files = << >>

\* text/plain after a valid image whose conversion went through
FileTypeGuardWitness ==
    /\ PassedValidation
    /\ FileCount = 2
    /\ request.files[1].type = "image/png"
    /\ request.files[2].type = "text/plain"
    /\ taskPc[1] = "fulfilled"
    /\ responses # << >>
    /\ responses[1].status = 500

-----------------------------------------------------------------------------
(* C5 *)

\* C5: in a 200 response every record's type is the MIME type of the
\* request's target format; it is never undefined.
RecordTypeMatchesFormat ==
    \A k \in ResponseIndices :
        responses[k].status = 200 =>
            \A i \in 1..Len(responses[k].files) :
                /\ responses[k].files[i].type # Undefined
                /\ responses[k].files[i].type = MimeTypeFor(request.targetFormat[1])

\* two files converted to jpg
RecordTypeMatchesFormatWitness ==
    /\ responses # << >>
    /\ responses[1].status = 200
    /\ request.targetFormat = <<"jpg">>
    /\ Len(responses[1].files) = 2

-----------------------------------------------------------------------------
(* C6 *)

\* the name is stem.format, where stem has no "." and the original name is
\* stem itself or goes on with a "." right after stem
NameDerivedFrom(name, original, format) ==
    LET stem == SubSeq(name, 1, Len(name) - Len(format) - 1)
    IN  /\ Len(name) >= Len(format) + 1
        /\ name = stem \o "." \o format
        /\ ~Contains(stem, ".")
        /\ original = stem \/ StartsWith(original, stem \o ".")

\* C6: a converted record's name is the text of the original name before its
\* first ".", then "." and the target format in lower case; originalName is
\* the submitted name.
NameDerivation ==
    \A i \in DOMAIN all.values :
        /\ all.values[i].originalName = request.files[i].name
        /\ NameDerivedFrom(all.values[i].name, request.files[i].name, request.targetFormat[1])
        /\ request.files[i].name = "photo.with.dots.png" => all.values[i].name = "photo.webp"
        /\ request.files[i].name = "noext" => all.values[i].name = "noext.webp"
        /\ request.files[i].name = ".hidden" => all.values[i].name = ".webp"

\* the three shapes of a name converted: several dots, no dot, a leading dot
NameDerivationWitness ==
    /\ responses # << >>
    /\ responses[1].status = 200
    /\ \E i, j \in 1..Len(responses[1].files) :
          /\ responses[1].files[i].originalName = "photo.with.dots.png"
          /\ responses[1].files[j].originalName = ".hidden"

-----------------------------------------------------------------------------
(* C7 *)

\* the quality the fields of SpecOptions stand for
QualityOf(field) ==
    IF field = <<"50">> THEN 50
    ELSE IF field = <<"-5">> THEN 0 - 5
    ELSE 80

\* C7: the quality handed to convertImage and to the encoder is 80 when the
\* field is absent, not a number or zero, and the field's number otherwise;
\* lossless is true exactly for the field "true"; every file's calls get the
\* same pair.
OptionParsing ==
    /\ QualityOnSamples
    /\ Uploaded =>
          /\ quality = QualityOf(request.quality)
          /\ lossless = (request.lossless = <<"true">>)
    /\ \A i \in TaskIds : \A k \in 1..Len(codecCalls[i]) :
          /\ codecCalls[i][k].quality = QualityOf(request.quality)
          /\ "lossless" \in codecCalls[i][k].passed =>
                codecCalls[i][k].lossless = (request.lossless = <<"true">>)
    /\ \A i, j \in TaskIds : \A k \in 1..Len(codecCalls[i]) : \A m \in 1..Len(codecCalls[j]) :
          /\ codecCalls[i][k].quality = codecCalls[j][m].quality
          /\ codecCalls[i][k].op = codecCalls[j][m].op =>
                codecCalls[i][k].lossless = codecCalls[j][m].lossless

\* two files encoded to webp with quality "0" and lossless "TRUE"
OptionParsingWitness ==
    /\ request.quality = <<"0">>
    /\ request.lossless = <<"TRUE">>
    /\ FileCount = 2
    /\ \A i \in TaskIds : Len(codecCalls[i]) = 2 /\ codecCalls[i][2].op = "webp"

-----------------------------------------------------------------------------
(* C8 *)

\* the response owed once a task has failed: the message of the first
\* rejection, which names that task's file
FirstFailureAnswer ==
    (PassedValidation /\ rejections # << >>) =>
        LET first == rejections[1]
        IN  /\ pc = "awaitAll" => all.state = "rejected"
            /\ Contains(taskError[first], request.files[first].name)
            /\ \A k \in ResponseIndices :
                  /\ responses[k].status = 500
                  /\ responses[k].error = "Error processing files"
                  /\ responses[k].details = taskError[first]

\* C8: once a task has failed the handler is resumed with the first failure
\* whatever the other tasks do, and answers; the 500 carries that failure's
\* message, one response is sent and no more, and a response sent is never
\* changed or followed by another.
FirstFailureWins ==
    /\ [](FirstFailureAnswer /\ Len(responses) <= 1)
    /\ [][responses # << >> => responses' = responses]_vars
    /\ (PassedValidation /\ rejections # << >>) ~> (Len(responses) = 1)

\* answered with the failure of the second file while the first, of another
\* name, is still in its encoder
FirstFailureWinsWitness ==
    /\ PassedValidation
    /\ Unacceptable = {}
    /\ FileCount = 2
    /\ request.files[1].name # request.files[2].name
    /\ rejections = <<2>>
    /\ taskPc[1] = "toBuffer"
    /\ responses # << >>
    /\ responses[1].status = 500

-----------------------------------------------------------------------------
(* C9 *)

StepOrder ==
    <<"typeCheck", "arrayBuffer", "metadataOriginal", "convertImage", "toBuffer",
      "metadataConverted", "record">>

Thrown(i) == steps[i][Len(steps[i])] = "throw"
StepsDone(i) == IF Thrown(i) THEN SubSeq(steps[i], 1, Len(steps[i]) - 1) ELSE steps[i]
CallsOf(i, ops) == {k \in 1..Len(codecCalls[i]) : codecCalls[i][k].op \in ops}

\* C9: the steps of a file run in the one order and each at most once; a throw
\* is the last thing its callback does; convertImage and the encoder are
\* called at most once, after the original's metadata was read, and never for
\* a file that failed the type check.
StepOrderNoRetry ==
    \A i \in TaskIds :
        /\ Len(StepsDone(i)) >= 1
        /\ IsPrefix(StepsDone(i), StepOrder)
        /\ Thrown(i) <=> taskPc[i] = "rejected"
        /\ StepsDone(i) = StepOrder <=> taskPc[i] = "fulfilled"
        /\ Cardinality(CallsOf(i, {"convertImage"})) <= 1
        /\ Cardinality(CallsOf(i, {"webp", "avif", "jpeg", "png", "default"})) <= 1
        /\ Len(codecCalls[i]) >= 1 => Len(StepsDone(i)) >= 4
        /\ Len(codecCalls[i]) >= 2 => Len(StepsDone(i)) >= 5
        /\ i \in Unacceptable => StepsDone(i) = <<"typeCheck">> /\ codecCalls[i] = << >>

\* one file went through every step, the other failed in its encoder
StepOrderNoRetryWitness ==
    \E i, j \in TaskIds :
        /\ steps[i] = StepOrder
        /\ steps[j] = <<"typeCheck", "arrayBuffer", "metadataOriginal", "convertImage",
                        "toBuffer", "throw">>

-----------------------------------------------------------------------------
(* C10 *)

LowestUnacceptable == CHOOSE i \in Unacceptable : \A j \in Unacceptable : i <= j

\* a validated request with a file of unacceptable type is rejected from the
\* start with the message of the lowest such file, and the callbacks of the
\* acceptable files are started
TypeCheckRejection ==
    (PassedValidation /\ Unacceptable # {}) =>
        LET details == "Invalid file type: " \o request.files[LowestUnacceptable].name
        IN  /\ all.state = "rejected"
            /\ all.reason = details
            /\ \A k \in ResponseIndices :
                  responses[k].status = 500 /\ responses[k].details = details
            /\ \A i \in (1..FileCount) \ Unacceptable :
                  Len(steps[i]) >= 2 /\ steps[i][2] = "arrayBuffer"

\* C10: a validated request with a file of unacceptable type is always
\* answered 500 with "Invalid file type: <name>" of the lowest such file,
\* whatever the other tasks do, and the callbacks of the acceptable files are
\* started all the same.
TypeCheckPreempts ==
    /\ []TypeCheckRejection
    /\ (PassedValidation /\ Unacceptable # {}) ~> (Len(responses) = 1)

\* the acceptable first file failed in the codec, and the answer names the second
TypeCheckPreemptsWitness ==
    /\ PassedValidation
    /\ FileCount = 2
    /\ Unacceptable = {2}
    /\ taskPc[1] = "rejected"
    /\ Len(steps[1]) >= 4
    /\ responses # << >>
    /\ responses[1].details = "Invalid file type: " \o request.files[2].name

====
